---- MODULE Spec2Model ----
(***************************************************************************)
(* Session-based authentication and role authorization of the BetterDesk   *)
(* console (web/auth.py) together with the Flask routes of web/app.py that *)
(* drive it.  The database tables users, sessions and audit_log are the    *)
(* shared state; every HTTP request is a process that runs its decorators  *)
(* and its handler one database transaction (one commit) at a time, so     *)
(* requests served by different threads interleave at commit boundaries.   *)
(***************************************************************************)
EXTENDS Integers, Sequences, FiniteSets, TLC

\* ------------------------------------------------------------------ bounds
MaxUsers == 2      \* user ids handed out by AUTOINCREMENT: 1..MaxUsers
MaxTok   == 2      \* distinct values generate_session_token can return
MaxReq   == 2      \* requests in flight at the same time
MaxAudit == 4      \* audit_log rows appended since the initial state
MaxManage == 2     \* of these, rows of user-management operations
MaxLogin == 2      \* of these, rows of logins
MaxTicks == 2      \* clock advances

\* ------------------------------------------------------- program constants
SESSION_EXPIRY_HOURS == 24
ROLE_ADMIN    == "admin"
ROLE_OPERATOR == "operator"
ROLE_VIEWER   == "viewer"
ROLES_HIERARCHY ==
    [r \in {ROLE_ADMIN, ROLE_OPERATOR, ROLE_VIEWER} |->
        IF r = ROLE_ADMIN THEN 3 ELSE IF r = ROLE_OPERATOR THEN 2 ELSE 1]

Roles     == DOMAIN ROLES_HIERARCHY
Ids       == 1..MaxUsers
Tokens    == 1..MaxTok
Slots     == 1..MaxReq
NoToken   == 0                         \* empty / absent Authorization value
Usernames == {"admin", "bob"}
Passwords == {"Secret123", "Passw0rd9"}
TickHours == SESSION_EXPIRY_HOURS     \* one clock advance: the session lifetime
Horizon   == MaxTicks * TickHours

VARIABLES
    users,      \* table users:    id    -> [username, password_hash, role, is_active]
    nextId,     \* next AUTOINCREMENT id of table users
    sessions,   \* table sessions: token -> [user_id, expires_at, last_activity, ...]
    audit,      \* table audit_log, rows appended since the initial state
    now,        \* datetime.now(), in hours
    req,        \* the requests in flight, one per serving thread
    peer        \* table peer:     id    -> [is_deleted, is_banned, banned_at, banned_by, ban_reason]

vars == <<users, nextId, sessions, audit, now, req, peer>>

\* --------------------------------------------------------------- helpers
Put(f, k, v) == [x \in DOMAIN f \cup {k} |-> IF x = k THEN v ELSE f[x]]
Drop(f, S)   == [x \in DOMAIN f \ S |-> f[x]]

\* bcrypt: the hash is salted and one way; checkpw(p, hashpw(q)) holds iff p = q
hash_password(password) == <<"bcrypt", password>>
verify_password(password, password_hash) == password_hash = <<"bcrypt", password>>

\* app.py validate_password_strength: 8 characters, a letter and a digit
validate_password_strength(password) == password \in Passwords

UserByName(username) == {id \in DOMAIN users : users[id].username = username}
SessionsOf(id) == {t \in DOMAIN sessions : sessions[t].user_id = id}

\* ---------------------------------------------------------------- requests
\* A request in flight: the endpoint (kind), the position in its code (pc),
\* the token taken from the Authorization header, g.user (uid, role) as set
\* by require_auth, the JSON payload, and the role set of @require_role.  A request enters the model with
\* its first database access and leaves it with its response.
Idle ==
    [kind |-> "none", pc |-> "idle", token |-> NoToken, uid |-> 0, role |-> "none",
     target |-> 0, name |-> "", pw |-> "", old |-> "", arole |-> "none",
     allowed |-> {}, username |-> "", device |-> "", reason |-> ""]

Free(i)    == req[i].pc = "idle"
\* a request is served by the first thread that is free
Takes(i)   == Free(i) /\ \A j \in Slots : j < i => ~Free(j)
\* the routes whose handler ends in a log_audit call
AuditKinds == {"login", "logout", "change_password", "create_user", "change_role",
               "activate", "deactivate", "reset_password", "delete_user",
               "ban_device", "unban_device"}
Pending    == {i \in Slots : req[i].kind \in AuditKinds}
\* every request writes at most one audit row; a request is accepted only while
\* the rows of all requests in flight still fit the modelled audit_log
Room       == Len(audit) + Cardinality(Pending) < MaxAudit

\* the ban routes, app.py 753-852
DeviceKinds == {"ban_device", "unban_device"}

\* the user-management routes, app.py 859-981
AdminKinds == {"list_users", "create_user", "change_role", "activate",
               "deactivate", "reset_password", "delete_user"}

\* audit rows tagged with the action name of the request payload
AuditTag_PayloadAction(kind) == kind

\* the action tags of the log_audit calls in app.py
AuditTag(kind) ==
    CASE kind = "change_role" -> "update_user_role"
      [] kind = "activate"    -> "activate_user"
      [] kind = "deactivate"  -> "deactivate_user"
      [] OTHER                -> kind

\* a login is accepted only while the rows of logins still fit
LoggingIn   == {i \in Slots : req[i].kind = "login"}
LoggedIn    == {k \in 1..Len(audit) : audit[k].action = "login"}
RoomToLogin == Cardinality(LoggedIn) + Cardinality(LoggingIn) < MaxLogin

\* the user-management routes that write: each ends in one audit row; a
\* request is accepted only while the rows of this kind still fit
ManageKinds  == AdminKinds \ {"list_users"}
Managing     == {i \in Slots : req[i].kind \in ManageKinds}
Managed      == {k \in 1..Len(audit) : \E m \in ManageKinds : audit[k].action = AuditTag(m)}
RoomToManage == Cardinality(Managed) + Cardinality(Managing) < MaxManage

\* user management opened to operators as well
Declared_OperatorsToo(kind, A) ==
    IF kind \in AdminKinds \cup DeviceKinds
    THEN {ROLE_ADMIN, ROLE_OPERATOR}
    ELSE IF kind = "gate" THEN A
    ELSE {}

\* the role sets the routes declare with @require_role; {} stands for a route
\* that carries @require_auth only
Declared(kind, A) ==
    IF kind \in AdminKinds THEN {ROLE_ADMIN}
    ELSE IF kind \in DeviceKinds THEN {ROLE_ADMIN, ROLE_OPERATOR}
    ELSE IF kind = "gate" THEN A
    ELSE {}

\* require_auth, lines 460-463: "Bearer <token>" loses its prefix, any other
\* header value is used as the token as it stands
Headers == {<< >>, <<1>>} \cup {<<"Bearer", t>> : t \in Tokens}
ExtractToken(header) ==
    IF Len(header) = 2 THEN header[2]
    ELSE IF Len(header) = 1 THEN header[1]
    ELSE NoToken

\* a row of table peer that is not banned: is_banned = 0 and the three ban
\* columns NULL, written << >>
Unbanned(is_deleted) ==
    [is_deleted |-> is_deleted, is_banned |-> FALSE,
     banned_at |-> << >>, banned_by |-> << >>, ban_reason |-> << >>]

\* the devices the relay server has registered: one in use, one soft-deleted
InitialPeers == ("dev-1" :> Unbanned(FALSE)) @@ ("dev-2" :> Unbanned(TRUE))

BootstrapAdmin ==
    [username |-> "admin", password_hash |-> hash_password("Secret123"),
     role |-> ROLE_ADMIN, is_active |-> TRUE]

\* The database after init_auth_tables created the default admin, or after
\* the admin went on to create a second account; no session is open.
Init ==
    /\ \E r \in Roles, withBob \in BOOLEAN :
         users = IF withBob
                 THEN (1 :> BootstrapAdmin)
                   @@ (2 :> [username |-> "bob", password_hash |-> hash_password("Secret123"),
                             role |-> r, is_active |-> TRUE])
                 ELSE (1 :> BootstrapAdmin)
    /\ nextId = Cardinality(DOMAIN users) + 1
    /\ sessions = << >>
    /\ audit = << >>
    /\ now = 0
    /\ req = [i \in Slots |-> Idle]
    /\ peer = InitialPeers

SetReq(i, r)       == req' = [req EXCEPT ![i] = r]
\* the response of slot i, with its HTTP status: the request leaves the model
Finish(i, code)    == SetReq(i, Idle)

\* --------------------------------------------------------- auth.py, pure
\* authenticate with an error of its own for a username that has no row
authenticate_NamesUnknownUser(username, password) ==
    LET ids == UserByName(username) IN
    IF ids = {} THEN [ok |-> FALSE, id |-> 0, role |-> "none", err |-> "Unknown user"]
    ELSE LET id == CHOOSE x \in ids : TRUE IN
         IF ~users[id].is_active
         THEN [ok |-> FALSE, id |-> 0, role |-> "none", err |-> "Account is disabled"]
         ELSE IF ~verify_password(password, users[id].password_hash)
         THEN [ok |-> FALSE, id |-> 0, role |-> "none", err |-> "Invalid username or password"]
         ELSE [ok |-> TRUE, id |-> id, role |-> users[id].role, err |-> ""]

\* authenticate, lines 186-213: the outcome for the row read by the SELECT
authenticate(username, password) ==
    LET ids == UserByName(username) IN
    IF ids = {} THEN [ok |-> FALSE, id |-> 0, role |-> "none", err |-> "Invalid username or password"]
    ELSE LET id == CHOOSE x \in ids : TRUE IN
         IF ~users[id].is_active
         THEN [ok |-> FALSE, id |-> 0, role |-> "none", err |-> "Account is disabled"]
         ELSE IF ~verify_password(password, users[id].password_hash)
         THEN [ok |-> FALSE, id |-> 0, role |-> "none", err |-> "Invalid username or password"]
         ELSE [ok |-> TRUE, id |-> id, role |-> users[id].role, err |-> ""]

\* verify_session with the expiry test written as now >= expires_at
verify_session_ExpiresAtBoundary(token) ==
    IF token = NoToken
    THEN [ok |-> FALSE, uid |-> 0, role |-> "none", expired |-> FALSE, err |-> "No authentication token provided"]
    ELSE IF ~(token \in DOMAIN sessions /\ sessions[token].user_id \in DOMAIN users)
    THEN [ok |-> FALSE, uid |-> 0, role |-> "none", expired |-> FALSE, err |-> "Invalid session token"]
    ELSE IF now >= sessions[token].expires_at
    THEN [ok |-> FALSE, uid |-> 0, role |-> "none", expired |-> TRUE, err |-> "Session expired"]
    ELSE IF ~users[sessions[token].user_id].is_active
    THEN [ok |-> FALSE, uid |-> 0, role |-> "none", expired |-> FALSE, err |-> "Account is disabled"]
    ELSE [ok |-> TRUE, uid |-> sessions[token].user_id,
          role |-> users[sessions[token].user_id].role, expired |-> FALSE, err |-> ""]

\* verify_session, lines 240-287: the outcome for the row read by the JOIN;
\* expired tells that the row is deleted before the error is raised
verify_session(token) ==
    IF token = NoToken
    THEN [ok |-> FALSE, uid |-> 0, role |-> "none", expired |-> FALSE, err |-> "No authentication token provided"]
    ELSE IF ~(token \in DOMAIN sessions /\ sessions[token].user_id \in DOMAIN users)
    THEN [ok |-> FALSE, uid |-> 0, role |-> "none", expired |-> FALSE, err |-> "Invalid session token"]
    ELSE IF now > sessions[token].expires_at
    THEN [ok |-> FALSE, uid |-> 0, role |-> "none", expired |-> TRUE, err |-> "Session expired"]
    ELSE IF ~users[sessions[token].user_id].is_active
    THEN [ok |-> FALSE, uid |-> 0, role |-> "none", expired |-> FALSE, err |-> "Account is disabled"]
    ELSE [ok |-> TRUE, uid |-> sessions[token].user_id,
          role |-> users[sessions[token].user_id].role, expired |-> FALSE, err |-> ""]

\* verify_session, lines 265 and 276-278: what the call writes to sessions
SessionsAfterVerify(token) ==
    LET v == verify_session(token) IN
    IF v.ok THEN [sessions EXCEPT ![token].last_activity = now]
    ELSE IF v.expired THEN Drop(sessions, {token})
    ELSE sessions

\* a role gate that reads ROLES_HIERARCHY: a higher role passes for a lower one
RolePasses_ByHierarchy(user_role, allowed_roles) ==
    /\ user_role \in DOMAIN ROLES_HIERARCHY
    /\ \E a \in allowed_roles : ROLES_HIERARCHY[user_role] >= ROLES_HIERARCHY[a]

\* require_role, line 488: the test that lets a request through
RolePasses(user_role, allowed_roles) == user_role \in allowed_roles

\* the two decorators stacked the other way round: the role test comes first
Decorators_RoleBeforeAuth(token, allowed) ==
    LET v == verify_session(token) IN
    IF allowed # {} /\ ~RolePasses(v.role, allowed) THEN 403
    ELSE IF token = NoToken \/ ~v.ok THEN 401
    ELSE 0

\* require_auth (456-475) above require_role (478-497): the status the two
\* decorators answer with, 0 when they call the handler
Decorators(token, allowed) ==
    LET v == verify_session(token) IN
    IF token = NoToken \/ ~v.ok THEN 401
    ELSE IF allowed # {} /\ ~RolePasses(v.role, allowed) THEN 403
    ELSE 0

\* create_session, lines 224-227: the row inserted for user_id; presented is
\* history (the password the caller proved knowledge of), not a column
NewSession(user_id, presented) ==
    [user_id |-> user_id, expires_at |-> now + SESSION_EXPIRY_HOURS,
     last_activity |-> now, presented |-> presented, stale |-> FALSE]

\* create_session, lines 216-237, for the token generate_session_token drew:
\* the sessions table after the INSERT, or ok = FALSE when the token is
\* already a primary key and the INSERT raises
create_session(user_id, token, presented) ==
    IF token \in DOMAIN sessions
    THEN [ok |-> FALSE, sessions |-> sessions]
    ELSE [ok |-> TRUE, sessions |-> Put(sessions, token, NewSession(user_id, presented))]

\* an audit log that keeps its latest row only
log_audit_KeepsLatest(user_id, action) == audit' = <<[user_id |-> user_id, action |-> action]>>

\* log_audit, lines 310-322
log_audit(user_id, action) == audit' = Append(audit, [user_id |-> user_id, action |-> action])

\* ------------------------------------------------ POST /api/auth/login
\* login, app.py 222-233 and 248-249: the status the route answers with
\* before it creates a session, 0 when it goes on to create_session
LoginStatus(username, password) ==
    IF username = "" \/ password = "" THEN 400
    ELSE IF ~authenticate(username, password).ok THEN 401
    ELSE 0

\* app.py 222-233: the payload check and authenticate() let the request on;
\* a request answered 400 or 401 here has read the database and written nothing
LoginAuthenticate(i, username, password) ==
    /\ Takes(i)
    /\ LoginStatus(username, password) = 0
    /\ Room /\ RoomToLogin
    /\ LET a == authenticate(username, password) IN
       SetReq(i, [Idle EXCEPT !.kind = "login", !.pc = "create_session",
                              !.uid = a.id, !.role = a.role, !.pw = password])
    /\ UNCHANGED <<users, nextId, sessions, audit, now, peer>>

\* app.py 236: create_session(user['id'])
LoginCreateSession(i, token) ==
    /\ req[i].kind = "login" /\ req[i].pc = "create_session"
    /\ LET c == create_session(req[i].uid, token, req[i].pw) IN
       /\ sessions' = c.sessions
       /\ IF c.ok
          THEN SetReq(i, [req[i] EXCEPT !.pc = "audit", !.token = token])
          ELSE Finish(i, 500)
    /\ UNCHANGED <<users, nextId, audit, now, peer>>

\* app.py 239-246: log_audit and the 200 response carrying the token
LoginAudit(i) ==
    /\ req[i].kind = "login" /\ req[i].pc = "audit"
    /\ log_audit(req[i].uid, "login")
    /\ Finish(i, 200)
    /\ UNCHANGED <<users, nextId, sessions, now, peer>>

\* ------------------------------------------- protected routes: decorators
\* the checks a handler makes on its JSON payload before it touches the
\* database (app.py 888-894, 921, 943-949, 997-1003; auth.py 159, 363)
PayloadOk(kind, pw, old, arole) ==
    CASE kind = "change_password" -> old # "" /\ validate_password_strength(pw)
      [] kind = "create_user"     -> validate_password_strength(pw) /\ arole \in DOMAIN ROLES_HIERARCHY
      [] kind = "change_role"     -> arole \in DOMAIN ROLES_HIERARCHY
      [] kind = "reset_password"  -> validate_password_strength(pw)
      [] OTHER                    -> TRUE

\* require_auth and require_role answer the request themselves
RejectRequest(i, kind, header, A) ==
    /\ Takes(i)
    /\ Decorators(ExtractToken(header), Declared(kind, A)) # 0
    /\ sessions' = SessionsAfterVerify(ExtractToken(header))
    /\ UNCHANGED <<users, nextId, audit, now, req, peer>>

\* require_auth and require_role call the handler, which rejects the payload
RejectPayload(i, kind, header, pw, old, arole) ==
    /\ Takes(i)
    /\ Decorators(ExtractToken(header), Declared(kind, {})) = 0
    /\ ~PayloadOk(kind, pw, old, arole)
    /\ sessions' = SessionsAfterVerify(ExtractToken(header))
    /\ UNCHANGED <<users, nextId, audit, now, req, peer>>

\* require_auth and require_role call the handler: g.user is set
BeginRequest(i, kind, header, target, name, pw, old, arole, A) ==
    /\ Takes(i)
    /\ Decorators(ExtractToken(header), Declared(kind, A)) = 0
    /\ PayloadOk(kind, pw, old, arole)
    /\ kind \in AuditKinds => Room
    /\ kind \in ManageKinds => RoomToManage
    /\ kind = "create_user" =>
         nextId + Cardinality({j \in Slots : req[j].kind = "create_user"}) <= MaxUsers
    /\ LET token == ExtractToken(header)
           v     == verify_session(token)
       IN
       /\ sessions' = SessionsAfterVerify(token)
       /\ SetReq(i, [Idle EXCEPT !.kind = kind, !.pc = "handler", !.token = token,
                                 !.uid = v.uid, !.role = v.role, !.target = target,
                                 !.name = name, !.pw = pw, !.old = old, !.arole = arole,
                                 !.allowed = Declared(kind, A)])
    /\ UNCHANGED <<users, nextId, audit, now, peer>>

\* GET /api/auth/verify, app.py 276-286: behind require_auth the handler
\* answers with g.user and reads no table, so the request is one step
VerifyToken(i, header) ==
    /\ Takes(i)
    /\ Decorators(ExtractToken(header), {}) = 0
    /\ sessions' = SessionsAfterVerify(ExtractToken(header))
    /\ UNCHANGED <<users, nextId, audit, now, req, peer>>

\* ------------------------------------------------- auth.py, table updates
\* a logout that ends every session of the token's owner
delete_session_OfWholeUser(token) ==
    sessions' = Drop(sessions, {t \in DOMAIN sessions :
                                   token \in DOMAIN sessions
                                   /\ sessions[t].user_id = sessions[token].user_id})

\* delete_session, lines 290-296
delete_session(token) == sessions' = Drop(sessions, {token})

\* a sweep that also takes the rows that expire at this very time
ExpiredIn_AtBoundary(tbl, at) == {t \in DOMAIN tbl : tbl[t].expires_at <= at}

\* cleanup_expired_sessions, line 303: the rows of table tbl its DELETE matches
\* at time at; their number is the rowcount the function returns
ExpiredIn(tbl, at) == {t \in DOMAIN tbl : tbl[t].expires_at < at}

\* a sweep that deletes one expired row per call
Swept_OneRow(tbl, at) ==
    IF ExpiredIn(tbl, at) = {} THEN tbl
    ELSE Drop(tbl, {CHOOSE t \in ExpiredIn(tbl, at) : TRUE})

\* cleanup_expired_sessions, line 303: table tbl after the DELETE at time at
Swept(tbl, at) == Drop(tbl, ExpiredIn(tbl, at))

\* cleanup_expired_sessions, lines 299-307
cleanup_expired_sessions == sessions' = Swept(sessions, now)

\* create_user that stores the default role whatever role it is given
create_user_AlwaysViewer(username, password, role) ==
    /\ users' = Put(users, nextId, [username |-> username, password_hash |-> hash_password(password),
                                    role |-> ROLE_VIEWER, is_active |-> TRUE])
    /\ nextId' = nextId + 1

\* create_user, lines 157-183 (after the role and uniqueness checks)
create_user(username, password, role) ==
    /\ users' = Put(users, nextId, [username |-> username, password_hash |-> hash_password(password),
                                    role |-> role, is_active |-> TRUE])
    /\ nextId' = nextId + 1

\* update_user_role whose UPDATE matches no row
update_user_role_WritesNothing(user_id, new_role) == UNCHANGED <<users, sessions>>

\* update_user_role, lines 361-371 (after the role check)
update_user_role(user_id, new_role) ==
    /\ users' = IF user_id \in DOMAIN users THEN [users EXCEPT ![user_id].role = new_role] ELSE users
    /\ UNCHANGED sessions

\* deactivate_user, lines 374-384
deactivate_user(user_id) ==
    /\ users' = IF user_id \in DOMAIN users THEN [users EXCEPT ![user_id].is_active = FALSE] ELSE users
    /\ sessions' = Drop(sessions, SessionsOf(user_id))

\* activate_user, lines 387-393; the rows of a user who is being reactivated
\* are marked stale (history, not a column)
activate_user(user_id) ==
    /\ users' = IF user_id \in DOMAIN users THEN [users EXCEPT ![user_id].is_active = TRUE] ELSE users
    /\ sessions' = [t \in DOMAIN sessions |->
                      IF /\ sessions[t].user_id = user_id
                         /\ user_id \in DOMAIN users
                         /\ ~users[user_id].is_active
                      THEN [sessions[t] EXCEPT !.stale = TRUE]
                      ELSE sessions[t]]

\* delete_user without its DELETE FROM sessions
delete_user_KeepSessions(user_id) ==
    /\ UNCHANGED sessions
    /\ users' = Drop(users, {user_id})

\* delete_user, lines 396-407
delete_user(user_id) ==
    /\ sessions' = Drop(sessions, SessionsOf(user_id))
    /\ users' = Drop(users, {user_id})

\* change_password that stores the new hash and forgets to delete the sessions
change_password_commit_KeepSessions(user_id, new_password) ==
    /\ users' = IF user_id \in DOMAIN users
                THEN [users EXCEPT ![user_id].password_hash = hash_password(new_password)]
                ELSE users
    /\ UNCHANGED sessions

\* change_password, lines 426-433: the UPDATE and the DELETE of one commit
change_password_commit(user_id, new_password) ==
    /\ users' = IF user_id \in DOMAIN users
                THEN [users EXCEPT ![user_id].password_hash = hash_password(new_password)]
                ELSE users
    /\ sessions' = Drop(sessions, SessionsOf(user_id))

\* reset_password, lines 439-451
reset_password(user_id, new_password) ==
    /\ users' = IF user_id \in DOMAIN users
                THEN [users EXCEPT ![user_id].password_hash = hash_password(new_password)]
                ELSE users
    /\ sessions' = Drop(sessions, SessionsOf(user_id))

\* ------------------------------------------------------- route handlers
\* GET /api/users and the routes outside the auth core (devices, generator):
\* nothing of users, sessions or audit_log is written
HandleRead(i) ==
    /\ req[i].pc = "handler" /\ req[i].kind \in {"list_users", "gate"}
    /\ Finish(i, 200)
    /\ UNCHANGED <<users, nextId, sessions, audit, now, peer>>

\* logout, app.py 262-266: the audit row is written before the session goes
LogoutAudit(i) ==
    /\ req[i].pc = "handler" /\ req[i].kind = "logout"
    /\ log_audit(req[i].uid, "logout")
    /\ SetReq(i, [req[i] EXCEPT !.pc = "delete_session"])
    /\ UNCHANGED <<users, nextId, sessions, now, peer>>

\* logout, app.py 269-271
LogoutDelete(i) ==
    /\ req[i].pc = "delete_session" /\ req[i].kind = "logout"
    /\ delete_session(req[i].token)
    /\ Finish(i, 200)
    /\ UNCHANGED <<users, nextId, audit, now, peer>>

\* change_password, auth.py 415-424: the SELECT and the two checks on its row
ChangePasswordCheck(i) ==
    /\ req[i].pc = "handler" /\ req[i].kind = "change_password"
    /\ IF \/ req[i].uid \notin DOMAIN users
          \/ ~verify_password(req[i].old, users[req[i].uid].password_hash)
       THEN Finish(i, 400)
       ELSE SetReq(i, [req[i] EXCEPT !.pc = "commit"])
    /\ UNCHANGED <<users, nextId, sessions, audit, now, peer>>

\* change_password, auth.py 426-433
ChangePasswordCommit(i) ==
    /\ req[i].pc = "commit" /\ req[i].kind = "change_password"
    /\ change_password_commit(req[i].uid, req[i].pw)
    /\ SetReq(i, [req[i] EXCEPT !.pc = "create_session"])
    /\ UNCHANGED <<nextId, audit, now, peer>>

\* change_password, auth.py 436: create_session(user_id)
ChangePasswordSession(i, token) ==
    /\ req[i].pc = "create_session" /\ req[i].kind = "change_password"
    /\ LET c == create_session(req[i].uid, token, req[i].pw) IN
       /\ sessions' = c.sessions
       /\ IF c.ok
          THEN SetReq(i, [req[i] EXCEPT !.pc = "audit", !.token = token])
          ELSE Finish(i, 500)
    /\ UNCHANGED <<users, nextId, audit, now, peer>>

\* change_user_password, app.py 1008-1015: log_audit and the new token
ChangePasswordAudit(i) ==
    /\ req[i].pc = "audit" /\ req[i].kind = "change_password"
    /\ log_audit(req[i].uid, "change_password")
    /\ Finish(i, 200)
    /\ UNCHANGED <<users, nextId, sessions, now, peer>>

\* create_user on a users table without the UNIQUE constraint on username
HandleCreateUser_NoUniqueIndex(i) ==
    /\ req[i].pc = "handler" /\ req[i].kind = "create_user"
    /\ create_user(req[i].name, req[i].pw, req[i].arole)
    /\ SetReq(i, [req[i] EXCEPT !.pc = "audit"])
    /\ UNCHANGED <<sessions, audit, now, peer>>

\* create_new_user, app.py 896-897: create_user, auth.py 166-181
HandleCreateUser(i) ==
    /\ req[i].pc = "handler" /\ req[i].kind = "create_user"
    /\ IF UserByName(req[i].name) # {}
       THEN Finish(i, 400) /\ UNCHANGED <<users, nextId>>
       ELSE /\ create_user(req[i].name, req[i].pw, req[i].arole)
            /\ SetReq(i, [req[i] EXCEPT !.pc = "audit"])
    /\ UNCHANGED <<sessions, audit, now, peer>>

\* update_user, app.py 924, 930, 936, 951: the auth.py call of the action
HandleUpdateUser(i) ==
    /\ req[i].pc = "handler"
    /\ req[i].kind \in {"change_role", "activate", "deactivate", "reset_password"}
    /\ CASE req[i].kind = "change_role"    -> update_user_role(req[i].target, req[i].arole)
         [] req[i].kind = "activate"       -> activate_user(req[i].target)
         [] req[i].kind = "deactivate"     -> deactivate_user(req[i].target)
         [] req[i].kind = "reset_password" -> reset_password(req[i].target, req[i].pw)
    /\ SetReq(i, [req[i] EXCEPT !.pc = "audit"])
    /\ UNCHANGED <<nextId, audit, now, peer>>

\* delete_user_account without its self-deletion guard
HandleDeleteUser_NoSelfGuard(i) ==
    /\ req[i].pc = "handler" /\ req[i].kind = "delete_user"
    /\ delete_user(req[i].target)
    /\ SetReq(i, [req[i] EXCEPT !.pc = "audit"])
    /\ UNCHANGED <<nextId, audit, now, peer>>

\* delete_user_account, app.py 968-974
HandleDeleteUser(i) ==
    /\ req[i].pc = "handler" /\ req[i].kind = "delete_user"
    /\ IF req[i].target = req[i].uid
       THEN Finish(i, 400) /\ UNCHANGED <<users, sessions>>
       ELSE /\ delete_user(req[i].target)
            /\ SetReq(i, [req[i] EXCEPT !.pc = "audit"])
    /\ UNCHANGED <<nextId, audit, now, peer>>

\* the log_audit call that closes a user-management handler, and its response
HandleAudit(i) ==
    /\ req[i].pc = "audit" /\ req[i].kind \in AdminKinds
    /\ log_audit(req[i].uid, AuditTag(req[i].kind))
    /\ Finish(i, 200)
    /\ UNCHANGED <<users, nextId, sessions, now, peer>>

\* ------------------------------------------------------ the ban routes
\* the device ids and ban reasons of the requests; "dev-3" has no row and
\* "dev 4" does not match DEVICE_ID_PATTERN
DeviceArgs == {"dev-1", "dev-2", "dev-3", "dev 4"}
Reasons    == {"", "abuse"}

\* validate_device_id, app.py 140-148, on the ids of DeviceArgs
validate_device_id(device_id) == device_id \in {"dev-1", "dev-2", "dev-3"}

\* ban_device and unban_device, app.py 758-760 and 814-816: the decorators
\* call the handler and the device id does not validate
RejectDevice(i, kind, header, device) ==
    /\ Takes(i)
    /\ Decorators(ExtractToken(header), Declared(kind, {})) = 0
    /\ ~validate_device_id(device)
    /\ sessions' = SessionsAfterVerify(ExtractToken(header))
    /\ UNCHANGED <<users, nextId, audit, now, req, peer>>

\* ban_device and unban_device behind their decorators, up to the SELECT:
\* g.user is set, the id is valid, the reason is read (app.py 758-769)
BeginDevice(i, kind, header, device, reason) ==
    /\ Takes(i)
    /\ Decorators(ExtractToken(header), Declared(kind, {})) = 0
    /\ validate_device_id(device)
    /\ Room
    /\ LET token == ExtractToken(header)
           v     == verify_session(token)
       IN
       /\ sessions' = SessionsAfterVerify(token)
       /\ SetReq(i, [Idle EXCEPT !.kind = kind, !.pc = "handler", !.token = token,
                                 !.uid = v.uid, !.role = v.role,
                                 !.username = users[v.uid].username,
                                 !.device = device, !.reason = reason,
                                 !.allowed = Declared(kind, {})])
    /\ UNCHANGED <<users, nextId, audit, now, peer>>

\* the row the SELECT of app.py 774 and 822 finds for the request of slot i
DeviceFound(i) == req[i].device \in DOMAIN peer /\ ~peer[req[i].device].is_deleted

\* app.py 774-783 and 822-831: the SELECT, answered 404 for a device without
\* a row that is not deleted, 409 for a ban of a banned and an unban of an
\* unbanned device; the SELECT opens no transaction
DeviceSelect(i) ==
    /\ req[i].pc = "handler" /\ req[i].kind \in DeviceKinds
    /\ IF ~DeviceFound(i)
       THEN Finish(i, 404)
       ELSE IF peer[req[i].device].is_banned = (req[i].kind = "ban_device")
       THEN Finish(i, 409)
       ELSE SetReq(i, [req[i] EXCEPT !.pc = "update"])
    /\ UNCHANGED <<users, nextId, sessions, audit, now, peer>>

\* app.py 785-792 and 833-840: the UPDATE ... WHERE id = ? AND is_deleted = 0
\* and its commit
DeviceUpdate(i) ==
    /\ req[i].pc = "update" /\ req[i].kind \in DeviceKinds
    /\ peer' = IF ~DeviceFound(i) THEN peer
               ELSE IF req[i].kind = "ban_device"
               THEN [peer EXCEPT ![req[i].device] =
                        [@ EXCEPT !.is_banned = TRUE, !.banned_at = <<now>>,
                                  !.banned_by = <<req[i].username>>,
                                  !.ban_reason = <<req[i].reason>>]]
               ELSE [peer EXCEPT ![req[i].device] = Unbanned(FALSE)]
    /\ SetReq(i, [req[i] EXCEPT !.pc = "audit"])
    /\ UNCHANGED <<users, nextId, sessions, audit, now>>

\* app.py 794-803 and 842-849: log_audit and the 200 answer
DeviceAudit(i) ==
    /\ req[i].pc = "audit" /\ req[i].kind \in DeviceKinds
    /\ log_audit(req[i].uid, req[i].kind)
    /\ Finish(i, 200)
    /\ UNCHANGED <<users, nextId, sessions, now, peer>>

\* the request of slot i stands before its log_audit call
AtLogAudit(r) ==
    \/ r.kind = "logout" /\ r.pc = "handler"
    \/ r.kind \in (AuditKinds \ {"logout"}) /\ r.pc = "audit"

\* log_audit raises (auth.py 316-321: the INSERT or the commit fails, the
\* database being locked or full); no caller catches it around the call, so
\* control passes to the except clause of the route
AuditFails(i) ==
    /\ AtLogAudit(req[i])
    /\ SetReq(i, [req[i] EXCEPT !.pc = "except"])
    /\ UNCHANGED <<users, nextId, sessions, audit, now, peer>>

\* the except Exception clause of the route answers 500 (login, logout,
\* change-password, delete user; app.py 250-255, 272-273, 1018-1019, 980-981)
\* or 400 (create and update user; app.py 904-905, 959-960)
RouteExcept(i) ==
    /\ req[i].pc = "except"
    /\ Finish(i, IF req[i].kind \in {"create_user", "change_role", "activate",
                                     "deactivate", "reset_password"} THEN 400 ELSE 500)
    /\ UNCHANGED <<users, nextId, sessions, audit, now, peer>>

\* ------------------------------------------------ storage failures
\* the routes whose auth.py call is a credential-change cascade
CascadeKinds == {"deactivate", "reset_password", "change_password"}

\* the statements of a cascade in the order the connection runs them
\* (auth.py 379-383, 427-432, 446-450): 1 the UPDATE of users, 2 the DELETE
\* of sessions, 3 conn.commit()
CascadeSteps == 1..3

\* request r stands before the first write of its cascade
AtCascade(r) ==
    \/ r.kind \in {"deactivate", "reset_password"} /\ r.pc = "handler"
    \/ r.kind = "change_password" /\ r.pc = "commit"

\* the user id the cascade of request r is called with
CascadeUser(r) == IF r.kind = "change_password" THEN r.uid ELSE r.target

\* the users table after the UPDATE of the cascade of request r
CascadeUpdate(r) ==
    IF CascadeUser(r) \notin DOMAIN users THEN users
    ELSE IF r.kind = "deactivate"
         THEN [users EXCEPT ![CascadeUser(r)].is_active = FALSE]
         ELSE [users EXCEPT ![CascadeUser(r)].password_hash = hash_password(r.pw)]

\* the tables as the connection of request r sees them when step k is about
\* to run, the statements before k executed and not yet committed
Executed(r, k) ==
    [users    |-> IF k > 1 THEN CascadeUpdate(r) ELSE users,
     sessions |-> IF k > 2 THEN Drop(sessions, SessionsOf(CascadeUser(r))) ELSE sessions]

\* a connection in autocommit mode: what was executed stays
Abandoned_Autocommit(r, k) == Executed(r, k)

\* get_auth_db, auth.py 38-42: sqlite3.connect with its default isolation
\* level opens a transaction at the first UPDATE or DELETE; a connection
\* that is abandoned at step k without a commit leaves the tables as they
\* were
Abandoned(r, k) == [users |-> users, sessions |-> sessions]

\* step k of the cascade raises (the database is locked, full or gone): the
\* function is left with its connection uncommitted and the route's except
\* clause takes over
CascadeFails(i, k) ==
    /\ AtCascade(req[i])
    /\ users' = Abandoned(req[i], k).users
    /\ sessions' = Abandoned(req[i], k).sessions
    /\ SetReq(i, [req[i] EXCEPT !.pc = "except"])
    /\ UNCHANGED <<nextId, audit, now, peer>>

\* change_password, auth.py 436: create_session raises on the storage, after
\* the commit of line 432
SessionFails(i) ==
    /\ req[i].pc = "create_session" /\ req[i].kind = "change_password"
    /\ SetReq(i, [req[i] EXCEPT !.pc = "except"])
    /\ UNCHANGED <<users, nextId, sessions, audit, now, peer>>

\* before_request, app.py 1580-1589: the sweep some requests trigger
Sweep ==
    /\ cleanup_expired_sessions
    /\ UNCHANGED <<users, nextId, audit, now, req, peer>>

\* before_request, app.py 1586-1589, when cleanup_expired_sessions raises at
\* its DELETE or at its commit: the connection is dropped with its
\* transaction, the bare except drops the exception
SweepFails ==
    /\ sessions' = sessions
    /\ UNCHANGED <<users, nextId, audit, now, req, peer>>

\* the wall clock
Tick ==
    /\ now + TickHours <= Horizon
    /\ now' = now + TickHours
    /\ UNCHANGED <<users, nextId, sessions, audit, req, peer>>

RoleSets == SUBSET Roles \ {{}}
PwArgs   == Passwords \cup {""}

\* ------------------------------------------------- requests, per route
Login ==
    \/ \E i \in Slots, u \in Usernames, p \in PwArgs : LoginAuthenticate(i, u, p)
    \/ \E i \in Slots, t \in Tokens : LoginCreateSession(i, t)
    \/ \E i \in Slots : LoginAudit(i)

Verify ==
    \/ \E i \in Slots, h \in Headers : RejectRequest(i, "verify", h, {})
    \/ \E i \in Slots, h \in Headers : VerifyToken(i, h)

Logout ==
    \/ \E i \in Slots, h \in Headers : RejectRequest(i, "logout", h, {})
    \/ \E i \in Slots, h \in Headers : BeginRequest(i, "logout", h, 0, "", "", "", "none", {})
    \/ \E i \in Slots : LogoutAudit(i)
    \/ \E i \in Slots : LogoutDelete(i)

ChangePassword ==
    \/ \E i \in Slots, h \in Headers : RejectRequest(i, "change_password", h, {})
    \/ \E i \in Slots, h \in Headers : RejectPayload(i, "change_password", h, "", "Secret123", "none")
    \/ \E i \in Slots, h \in Headers : RejectPayload(i, "change_password", h, "Secret123", "", "none")
    \/ \E i \in Slots, h \in Headers, o \in Passwords, p \in Passwords :
          BeginRequest(i, "change_password", h, 0, "", p, o, "none", {})
    \/ \E i \in Slots : ChangePasswordCheck(i)
    \/ \E i \in Slots : ChangePasswordCommit(i)
    \/ \E i \in Slots, t \in Tokens : ChangePasswordSession(i, t)
    \/ \E i \in Slots : ChangePasswordAudit(i)

\* a route outside the auth core, declared with @require_role(*A)
Gate ==
    \/ \E i \in Slots, h \in Headers, A \in RoleSets : RejectRequest(i, "gate", h, A)
    \/ \E i \in Slots, h \in Headers, A \in RoleSets :
          BeginRequest(i, "gate", h, 0, "", "", "", "none", A)

ListUsers ==
    \/ \E i \in Slots, h \in Headers : RejectRequest(i, "list_users", h, {})
    \/ \E i \in Slots, h \in Headers : BeginRequest(i, "list_users", h, 0, "", "", "", "none", {})

CreateUser ==
    \/ \E i \in Slots, h \in Headers : RejectRequest(i, "create_user", h, {})
    \/ \E i \in Slots, h \in Headers : RejectPayload(i, "create_user", h, "", "", ROLE_VIEWER)
    \/ \E i \in Slots, h \in Headers : RejectPayload(i, "create_user", h, "Secret123", "", "root")
    \/ \E i \in Slots, h \in Headers, u \in Usernames, r \in Roles :
          BeginRequest(i, "create_user", h, 0, u, "Secret123", "", r, {})
    \/ \E i \in Slots : HandleCreateUser(i)

ChangeRole ==
    \/ \E i \in Slots, h \in Headers : RejectRequest(i, "change_role", h, {})
    \/ \E i \in Slots, h \in Headers : RejectPayload(i, "change_role", h, "", "", "root")
    \/ \E i \in Slots, h \in Headers, id \in Ids, r \in Roles :
          BeginRequest(i, "change_role", h, id, "", "", "", r, {})

Activation ==
    \/ \E i \in Slots, h \in Headers, k \in {"activate", "deactivate"} : RejectRequest(i, k, h, {})
    \/ \E i \in Slots, h \in Headers, id \in Ids, k \in {"activate", "deactivate"} :
          BeginRequest(i, k, h, id, "", "", "", "none", {})

ResetPassword ==
    \/ \E i \in Slots, h \in Headers : RejectRequest(i, "reset_password", h, {})
    \/ \E i \in Slots, h \in Headers : RejectPayload(i, "reset_password", h, "", "", "none")
    \/ \E i \in Slots, h \in Headers, id \in Ids, p \in Passwords :
          BeginRequest(i, "reset_password", h, id, "", p, "", "none", {})

DeleteUser ==
    \/ \E i \in Slots, h \in Headers : RejectRequest(i, "delete_user", h, {})
    \/ \E i \in Slots, h \in Headers, id \in Ids :
          BeginRequest(i, "delete_user", h, id, "", "", "", "none", {})
    \/ \E i \in Slots : HandleDeleteUser(i)

Device ==
    \/ \E i \in Slots, h \in Headers, k \in DeviceKinds : RejectRequest(i, k, h, {})
    \/ \E i \in Slots, h \in Headers, k \in DeviceKinds, d \in DeviceArgs :
          RejectDevice(i, k, h, d)
    \/ \E i \in Slots, h \in Headers, k \in DeviceKinds, d \in DeviceArgs, r \in Reasons :
          BeginDevice(i, k, h, d, r)
    \/ \E i \in Slots : DeviceSelect(i)
    \/ \E i \in Slots : DeviceUpdate(i)
    \/ \E i \in Slots : DeviceAudit(i)

AuditFailure ==
    \/ \E i \in Slots : AuditFails(i)
    \/ \E i \in Slots : RouteExcept(i)

StorageFailure ==
    \/ \E i \in Slots, k \in CascadeSteps : CascadeFails(i, k)
    \/ \E i \in Slots : SessionFails(i)
    \/ \E i \in Slots : RouteExcept(i)

UpdateUser == \E i \in Slots : HandleUpdateUser(i)
Audit      == \E i \in Slots : HandleAudit(i)
Read       == \E i \in Slots : HandleRead(i)

Next ==
    \/ Login \/ Verify \/ Logout \/ ChangePassword
    \/ Gate \/ ListUsers \/ Read
    \/ CreateUser \/ ChangeRole \/ Activation \/ ResetPassword \/ DeleteUser
    \/ UpdateUser \/ Audit \/ AuditFailure \/ StorageFailure
    \/ Device
    \/ Sweep \/ SweepFails \/ Tick

\* the whole console
Spec == Init /\ [][Next]_vars

\* the life of a session: login, verify, logout, expiry and the sweep
NextSession == Login \/ Verify \/ Logout \/ Sweep \/ Tick
SpecSession == Init /\ [][NextSession]_vars

\* passwords: login against self-service change and admin reset
NextPassword ==
    \/ Login \/ ChangePassword \/ ResetPassword \/ UpdateUser \/ Audit
SpecPassword == Init /\ [][NextPassword]_vars

\* activation: login and verify against deactivate and activate, with expiry
NextActivation ==
    \/ Login \/ Verify \/ Activation \/ UpdateUser \/ Audit \/ Tick
SpecActivation == Init /\ [][NextActivation]_vars

\* the decorators in front of a route that declares a role set
NextGate == Login \/ Gate \/ Read \/ Tick
SpecGate == Init /\ [][NextGate]_vars

\* accounts: creation, activation and deletion against login
NextAdmin ==
    \/ Login \/ CreateUser \/ Activation \/ DeleteUser \/ UpdateUser \/ Audit
SpecAdmin == Init /\ [][NextAdmin]_vars

\* user management with the clock running.  The second account, if it exists,
\* is an operator; the specification follows the console for one audit row
\* less than the others and for one advance of the clock, in which sessions
\* age but none expires.
InitStaffed == Init /\ (2 \in DOMAIN users => users[2].role = ROLE_OPERATOR)
Accepts     == \E i \in Slots : Free(i) /\ ~Free(i)'
Upto(n)     == Accepts => Len(audit) + Cardinality(Pending) < n
NextAdminClock ==
    \/ (Login /\ Upto(MaxAudit - 1)) \/ ListUsers \/ Read
    \/ (CreateUser /\ Upto(MaxAudit - 1)) \/ (ChangeRole /\ Upto(MaxAudit - 1))
    \/ (Activation /\ Upto(MaxAudit - 1)) \/ (ResetPassword /\ Upto(MaxAudit - 1))
    \/ (DeleteUser /\ Upto(MaxAudit - 1))
    \/ UpdateUser \/ Audit
    \/ (now = 0 /\ Tick)
SpecAdminClock == InitStaffed /\ [][NextAdminClock]_vars

\* the audit write failing under login, logout and account deletion
NextAuditFailure == Login \/ Logout \/ DeleteUser \/ Audit \/ AuditFailure
SpecAuditFailure == Init /\ [][NextAuditFailure]_vars

\* the audit trail under logins, logouts, password changes, account deletion,
\* expiry and the sweep, followed for one audit row less than the bound
NextTrail ==
    \/ (Login /\ Upto(MaxAudit - 1)) \/ (Logout /\ Upto(MaxAudit - 1))
    \/ (ChangePassword /\ Upto(MaxAudit - 1)) \/ (DeleteUser /\ Upto(MaxAudit - 1))
    \/ Audit \/ Sweep \/ Tick
SpecTrail == Init /\ [][NextTrail]_vars

\* every audited operation, within the lifetime of the sessions, followed
\* for one audit row less than the bound
NextLedger ==
    \/ (Login /\ Upto(MaxAudit - 1)) \/ (Logout /\ Upto(MaxAudit - 1))
    \/ (ChangePassword /\ Upto(MaxAudit - 1))
    \/ (CreateUser /\ Upto(MaxAudit - 1)) \/ (ChangeRole /\ Upto(MaxAudit - 1))
    \/ (Activation /\ Upto(MaxAudit - 1)) \/ (ResetPassword /\ Upto(MaxAudit - 1))
    \/ (DeleteUser /\ Upto(MaxAudit - 1))
    \/ UpdateUser \/ Audit
SpecLedger == InitStaffed /\ [][NextLedger]_vars

\* the credential-change cascades with a storage that may fail under them
NextCascade ==
    \/ (Login /\ Upto(MaxAudit - 1)) \/ (ChangePassword /\ Upto(MaxAudit - 1))
    \/ (Activation /\ Upto(MaxAudit - 1)) \/ (ResetPassword /\ Upto(MaxAudit - 1))
    \/ UpdateUser \/ Audit \/ StorageFailure
SpecCascade == InitStaffed /\ [][NextCascade]_vars

\* sessions that are created, ended by logout and swept, without the verify
\* route
NextSweep == Login \/ Logout \/ Sweep \/ Tick
SpecSweep == Init /\ [][NextSweep]_vars

\* sessions that run out while accounts are deleted
NextExpiry ==
    \/ (Login /\ Upto(MaxAudit - 1)) \/ Verify
    \/ (DeleteUser /\ Upto(MaxAudit - 1)) \/ Audit
    \/ Sweep \/ Tick
SpecExpiry == Init /\ [][NextExpiry]_vars

\* logins under the sweep of before_request, which may fail
NextHousekeeping == Login \/ Sweep \/ SweepFails \/ Tick
SpecHousekeeping == Init /\ [][NextHousekeeping]_vars

\* role changes against the sessions of the users they are made to
NextRoles ==
    \/ (Login /\ Upto(MaxAudit - 1)) \/ (ChangeRole /\ Upto(MaxAudit - 1))
    \/ UpdateUser \/ Audit \/ Gate \/ Read
SpecRoles == InitStaffed /\ [][NextRoles]_vars

\* bans and unbans by the users who are logged in
NextDevices ==
    \/ (Login /\ Upto(MaxAudit - 1)) \/ (Device /\ Upto(MaxAudit - 1))
    \/ (now = 0 /\ Tick)
SpecDevices == InitStaffed /\ [][NextDevices]_vars

\* ================================================================ claims
Owner(t)  == sessions[t].user_id
\* the session of token t is present, its owner exists and is active
Owned(t)  == t \in DOMAIN sessions /\ Owner(t) \in DOMAIN users /\ users[Owner(t)].is_active
\* slot i takes the step that leads from position p to position q
Moves(i, p, q) == req[i].pc = p /\ req'[i].pc = q
\* the same readings in the state a step leads to
SessionsOfNext(id) == {t \in DOMAIN sessions' : sessions'[t].user_id = id}
VerifiesNext(t)    == verify_session(t)'.ok

C2_AsClaimed ==
    [][\A i \in Slots :
        /\ (req[i].kind = "change_password" /\ Moves(i, "commit", "create_session"))
              => SessionsOfNext(req[i].uid) = {}
        /\ (req[i].kind = "reset_password" /\ Moves(i, "handler", "audit"))
              => SessionsOfNext(req[i].target) = {}
        /\ (req[i].kind = "change_password" /\ Moves(i, "create_session", "audit"))
              => {t \in SessionsOfNext(req[i].uid) : VerifiesNext(t)} = {req'[i].token}
      ]_vars

\* C2 amended: the password commit of change_password or reset_password
\* deletes every session the user had, so every earlier token fails
\* verify_session; change_password then returns a newly inserted token of that
\* user, which validates if the user is still active, but other tokens created
\* by logins after the commit may validate beside it.
C2_PasswordChangeDropsSessions ==
    [][\A i \in Slots :
        /\ (req[i].kind = "change_password" /\ Moves(i, "commit", "create_session"))
              => /\ SessionsOfNext(req[i].uid) = {}
                 /\ \A t \in SessionsOf(req[i].uid) : ~VerifiesNext(t)
        /\ (req[i].kind = "reset_password" /\ Moves(i, "handler", "audit"))
              => /\ SessionsOfNext(req[i].target) = {}
                 /\ \A t \in SessionsOf(req[i].target) : ~VerifiesNext(t)
        /\ (req[i].kind = "change_password" /\ Moves(i, "create_session", "audit"))
              => \A t \in Tokens : t = req'[i].token =>
                 /\ t \notin DOMAIN sessions
                 /\ t \in SessionsOfNext(req[i].uid)
                 /\ (req[i].uid \in DOMAIN users /\ users[req[i].uid].is_active)
                       => VerifiesNext(t)
      ]_vars

\* change_password has returned a new token and it is the user's only session
C2_Witness ==
    \E i \in Slots :
        /\ req[i].kind = "change_password" /\ req[i].pc = "audit"
        /\ SessionsOf(req[i].uid) = {req[i].token}
        /\ verify_session(req[i].token).ok
        /\ users[req[i].uid].password_hash = hash_password(req[i].pw)
        /\ req[i].pw # req[i].old

\* C3: in no reachable state does a token validate that was obtained by
\* presenting a password which is no longer the user's password.
C3_NoSessionFromOldPassword ==
    \A t \in DOMAIN sessions :
        verify_session(t).ok =>
            verify_password(sessions[t].presented, users[Owner(t)].password_hash)

\* C4: while a user is inactive none of its tokens validates, authenticate
\* fails for it with every password, and no session is created for it.
C4_InactiveUserGetsNoSession ==
    /\ [](\A u \in DOMAIN users : ~users[u].is_active =>
            /\ \A t \in SessionsOf(u) : ~verify_session(t).ok
            /\ \A p \in PwArgs : ~authenticate(users[u].username, p).ok)
    /\ [][\A u \in Ids :
            (u \in DOMAIN users /\ ~users[u].is_active) =>
                SessionsOfNext(u) \subseteq SessionsOf(u)]_vars

\* C5: a token that existed when its deactivated owner was reactivated never
\* validates.
C5_NoTokenSurvivesReactivation ==
    \A t \in DOMAIN sessions : sessions[t].stale => ~verify_session(t).ok

\* the session of token t is present, unexpired, and its owner is active
Live(t) == Owned(t) /\ now <= sessions[t].expires_at
\* the role the session of token t carries
RoleOf(t) == users[Owner(t)].role
AnyToken == Tokens \cup {NoToken}
AnyRoleSet == RoleSets \cup {{}}

\* C6: a token that is missing, unknown, expired or of an inactive owner is
\* answered 401 whatever roles the route declares; a valid token is let
\* through only if the route declares no roles or its role is declared, and is
\* answered 403 otherwise; and a request reaches its handler only in a step
\* in which its token is valid and its role passes.
C6_HandlerBehindDecorators ==
    /\ [](\A t \in AnyToken, A \in AnyRoleSet :
            /\ (t = NoToken \/ ~Live(t)) => Decorators(t, A) = 401
            /\ Decorators(t, A) = 403 => (Live(t) /\ A # {} /\ RoleOf(t) \notin A)
            /\ Decorators(t, A) = 0 => (Live(t) /\ (A = {} \/ RoleOf(t) \in A)))
    /\ [][\A i \in Slots : \A t \in AnyToken :
            (Moves(i, "idle", "handler") /\ t = req'[i].token) =>
                /\ Live(t)
                /\ req'[i].uid = Owner(t) /\ req'[i].role = RoleOf(t)
                /\ req'[i].allowed = {} \/ RoleOf(t) \in req'[i].allowed]_vars

\* a handler is running behind a declared role set while an expired session
\* of a role outside that set is answered 401, not 403
C6_Witness ==
    \E i \in Slots, t \in DOMAIN sessions :
        /\ req[i].pc = "handler" /\ req[i].allowed # {}
        /\ Owned(t) /\ now > sessions[t].expires_at
        /\ RoleOf(t) \notin req[i].allowed
        /\ Decorators(t, req[i].allowed) = 401

\* C7: for a session that validates, with role r, and every declared role set
\* A, the request passes the gate iff r is in A and is answered 403 iff not.
C7_RoleGateIsMembership ==
    \A t \in DOMAIN sessions, A \in RoleSets :
        verify_session(t).ok =>
            /\ (Decorators(t, A) = 0) <=> (verify_session(t).role \in A)
            /\ (Decorators(t, A) = 403) <=> (verify_session(t).role \notin A)

\* an admin session is refused on a route that declares operator only
C7_Witness ==
    \E t \in DOMAIN sessions :
        /\ verify_session(t).ok /\ verify_session(t).role = ROLE_ADMIN
        /\ ROLES_HIERARCHY[ROLE_ADMIN] > ROLES_HIERARCHY[ROLE_OPERATOR]
        /\ Decorators(t, {ROLE_OPERATOR}) = 403

\* a step in which a request is answered by the decorators or on its payload:
\* nothing is left in flight and the clock stands
Answered == req' = req /\ now' = now
\* the session of token t is valid and its role is not admin
Staff(t) == Live(t) /\ RoleOf(t) # ROLE_ADMIN
\* the part of C8 the code keeps: the decorators answer 403 to a valid
\* operator or viewer session on every user-management route, every
\* user-management request in flight was let through with the role admin, and
\* users and audit_log change only in steps of login requests and of
\* user-management requests
AdminOnly ==
    /\ [](\A t \in DOMAIN sessions, k \in AdminKinds :
            /\ Staff(t) => Decorators(t, Declared(k, {})) = 403
            /\ Decorators(t, Declared(k, {})) = 0 => RoleOf(t) = ROLE_ADMIN)
    /\ [](\A i \in Slots : req[i].kind \in AdminKinds => req[i].role = ROLE_ADMIN)
    /\ [][(users' # users \/ audit' # audit) =>
            \E i \in Slots : /\ req'[i] # req[i]
                             /\ req[i].kind \in AdminKinds \cup {"login"}]_vars

C9_SessionsAreIndependent ==
    [][\A i \in Slots : \A t \in Tokens :
        /\ (req[i].kind = "login" /\ Moves(i, "create_session", "audit") /\ t = req'[i].token)
              => /\ t \notin DOMAIN sessions
                 /\ DOMAIN sessions' = DOMAIN sessions \cup {t}
                 /\ sessions'[t].user_id = req[i].uid
                 /\ \A o \in DOMAIN sessions : sessions'[o] = sessions[o]
        /\ (req[i].kind = "logout" /\ Moves(i, "delete_session", "idle") /\ t = req[i].token)
              => /\ DOMAIN sessions' = DOMAIN sessions \ {t}
                 /\ \A o \in DOMAIN sessions' :
                       /\ sessions'[o] = sessions[o]
                       /\ VerifiesNext(o) = verify_session(o).ok
      ]_vars

\* a user has logged in twice and logged out once, and still holds a session
\* that validates
C9_Witness ==
    \E u \in DOMAIN users :
        /\ now = 0 /\ \A i \in Slots : Free(i)
        /\ Cardinality({k \in 1..Len(audit) : audit[k] = [user_id |-> u, action |-> "login"]}) = 2
        /\ \E k \in 1..Len(audit) : audit[k] = [user_id |-> u, action |-> "logout"]
        /\ \E t \in SessionsOf(u) : verify_session(t).ok

\* C10: the delete_user step removes the row of its target and every session
\* of the target, so that none of the target's tokens validates, and leaves
\* the rows of every other user and every other session as they were; a
\* session whose owner has no row never validates.
C10_DeleteUserCascade ==
    /\ [](\A t \in DOMAIN sessions : Owner(t) \notin DOMAIN users => ~verify_session(t).ok)
    /\ [][\A i \in Slots : \A d \in Ids :
            (req[i].kind = "delete_user" /\ Moves(i, "handler", "audit") /\ d = req[i].target)
              => /\ DOMAIN users' = DOMAIN users \ {d}
                 /\ \A o \in DOMAIN users' : users'[o] = users[o]
                 /\ SessionsOfNext(d) = {}
                 /\ \A t \in SessionsOf(d) : ~VerifiesNext(t)
                 /\ \A t \in DOMAIN sessions \ SessionsOf(d) :
                       t \in DOMAIN sessions' /\ sessions'[t] = sessions[t]
      ]_vars

\* a user who had logged in has been deleted: its row and its sessions are
\* gone, and the admin who deleted it still holds a valid session
C10_Witness ==
    \E i \in Slots, d \in Ids :
        /\ req[i].kind = "delete_user" /\ req[i].pc = "audit" /\ req[i].target = d
        /\ d \notin DOMAIN users /\ SessionsOf(d) = {}
        /\ \E k \in 1..Len(audit) : audit[k] = [user_id |-> d, action |-> "login"]
        /\ verify_session(req[i].token).ok

\* slot i holds a delete-user request whose target is the caller
SelfDelete(r) == r.kind = "delete_user" /\ r.pc = "handler" /\ r.target = r.uid
\* the handler step of a self-deletion answers the request (the 400 of
\* app.py 969-970) and writes nothing
SelfDeleteRefused ==
    \A i \in Slots :
        (SelfDelete(req[i]) /\ req'[i] # req[i]) =>
            /\ req'[i] = Idle
            /\ users' = users /\ sessions' = sessions /\ audit' = audit

Ghost == "ghost"
\* password p is not the password of any account named u
Mismatch(u, p) == \A id \in UserByName(u) : ~verify_password(p, users[id].password_hash)

\* C12 as stated: whenever the password does not match, authenticate gives
\* for every username, unknown or of an active or inactive account, the
\* outcome it gives for a username that does not exist.
C12_AsClaimed ==
    \A u \in Usernames, p \in PwArgs :
        Mismatch(u, p) => authenticate(u, p) = authenticate(Ghost, p)

\* C12 amended: that holds for unknown usernames and for active accounts; for
\* an inactive account authenticate fails with "Account is disabled" whatever
\* the password, which differs from the outcome for an unknown username.
C12_NoEnumerationOfActiveUsers ==
    \A u \in Usernames, p \in PwArgs :
        /\ ~authenticate(Ghost, p).ok
        /\ authenticate(Ghost, p).err = "Invalid username or password"
        /\ (Mismatch(u, p) /\ \A id \in UserByName(u) : users[id].is_active)
              => authenticate(u, p) = authenticate(Ghost, p)
        /\ (\E id \in UserByName(u) : ~users[id].is_active)
              => /\ ~authenticate(u, p).ok
                 /\ authenticate(u, p).err = "Account is disabled"
                 /\ authenticate(u, p) # authenticate(Ghost, p)

\* one account is inactive and another is active, and a third username is
\* unknown: a wrong password tells the first from the other two
C12_Witness ==
    \E a \in DOMAIN users, b \in DOMAIN users, p \in Passwords :
        /\ ~users[a].is_active /\ users[b].is_active
        /\ Mismatch(users[a].username, p) /\ Mismatch(users[b].username, p)
        /\ authenticate(users[b].username, p) = authenticate(Ghost, p)
        /\ authenticate(users[a].username, p) # authenticate(Ghost, p)

\* authenticate in the state a step leads to
AuthenticatesNext(u, p) == authenticate(u, p)'
\* the step commits a new password for user id (reset_password or change_password)
SetsPassword(id) ==
    \E i \in Slots :
        \/ req[i].kind = "reset_password" /\ Moves(i, "handler", "audit") /\ req[i].target = id
        \/ req[i].kind = "change_password" /\ Moves(i, "commit", "create_session") /\ req[i].uid = id

\* C13: right after create_user(u, p, r) authenticate(u, p) succeeds with the
\* new id and r; from then on it keeps succeeding with that id and the role
\* stored at the time, across every step that leaves the user in place and
\* active and is not a password change of that user; and the authenticate
\* step of a login writes no table.
C13_CreatedUserAuthenticates ==
    [][/\ \A i \in Slots, u \in Usernames, p \in Passwords, r \in Roles :
            ( /\ req[i].kind = "create_user" /\ Moves(i, "handler", "audit")
              /\ u = req[i].name /\ p = req[i].pw /\ r = req[i].arole )
              => AuthenticatesNext(u, p) = [ok |-> TRUE, id |-> nextId, role |-> r, err |-> ""]
       /\ \A id \in Ids, u \in Usernames, p \in Passwords :
            ( /\ authenticate(u, p).ok /\ authenticate(u, p).id = id
              /\ id \in DOMAIN users' /\ users'[id].is_active
              /\ ~SetsPassword(id) )
              => AuthenticatesNext(u, p) =
                    [ok |-> TRUE, id |-> id, role |-> users'[id].role, err |-> ""]
       /\ \A i \in Slots :
            (Free(i) /\ req'[i].kind = "login")
              => users' = users /\ sessions' = sessions /\ audit' = audit
      ]_vars

\* an account made by create_user authenticates with its id and stored role
\* after some account's role has been changed
C13_Witness ==
    \E p \in Passwords :
        /\ \E k \in 1..Len(audit) : audit[k].action = "create_user"
        /\ \E k \in 1..Len(audit) : audit[k].action = "update_user_role"
        /\ 2 \in DOMAIN users
        /\ authenticate(users[2].username, p) =
              [ok |-> TRUE, id |-> 2, role |-> users[2].role, err |-> ""]

\* C14: a step in which the log_audit call of a request fails takes the
\* request on to what follows the call (the deletion of the session for a
\* logout, the success response for the others), never to an error response.
C14_AuditFailureIsTolerated ==
    [][\A i \in Slots :
        (AtLogAudit(req[i]) /\ req'[i] # req[i] /\ audit' = audit) =>
            /\ req'[i].pc # "except"
            /\ req[i].kind = "logout" => req'[i].pc = "delete_session"]_vars

\* C15: every step leaves each existing audit_log row as it was, in its
\* place, and never shortens the log.
C15_AuditIsAppendOnly ==
    [][/\ Len(audit') >= Len(audit)
       /\ \A k \in 1..Len(audit) : audit'[k] = audit[k]]_vars

\* the log holds the rows of a user who has since been deleted
C15_Witness ==
    /\ Len(audit) >= 3
    /\ \E k \in 1..Len(audit) : audit[k].action = "delete_user"
    /\ \E k \in 1..Len(audit) : audit[k].user_id \notin DOMAIN users

\* the action tag each audited operation is to be logged under
Tags ==
    [k \in AuditKinds |->
        CASE k = "change_role" -> "update_user_role"
          [] k = "activate"    -> "activate_user"
          [] k = "deactivate"  -> "deactivate_user"
          [] OTHER             -> k]
\* slot i answers its request with success in this step
Succeeds(i) ==
    \/ req[i].kind = "logout" /\ Moves(i, "delete_session", "idle")
    \/ req[i].kind \in (AuditKinds \ {"logout"}) /\ Moves(i, "audit", "idle")
\* slot i answers its request with an error in this step, or the decorators
\* or the payload checks answer a request before it is in flight
Rejects(i) == Moves(i, "handler", "idle") \/ Moves(i, "commit", "idle") \/ req' = req

\* C16: the audit log grows only by a request at its log_audit call, by one
\* row with the tag of the operation and the id of the acting user, and that
\* request then stands behind the call; a request answers with success only
\* from behind its log_audit call; and a step that rejects a request appends
\* nothing.
C16_OneAuditRowPerOperation ==
    [][/\ audit' # audit =>
            \E i \in Slots :
                /\ AtLogAudit(req[i]) /\ req'[i] # req[i] /\ ~AtLogAudit(req'[i])
                /\ audit' = Append(audit, [user_id |-> req[i].uid,
                                           action  |-> Tags[req[i].kind]])
                /\ req[i].kind = "logout" => req'[i].pc = "delete_session"
       /\ \A i \in Slots :
            /\ Succeeds(i) =>
                  IF req[i].kind = "logout" THEN audit' = audit
                  ELSE Len(audit') = Len(audit) + 1
            /\ (req'[i].pc = "delete_session" /\ req[i].pc # "delete_session")
                  => Len(audit') = Len(audit) + 1
            /\ Rejects(i) => audit' = audit
      ]_vars

\* an admin has changed a role and a user has logged out: both rows are in
\* the log under their tags
C16_Witness ==
    /\ \E k \in 1..Len(audit) : audit[k].action = "update_user_role"
    /\ \E k \in 1..Len(audit) : audit[k].action = "logout"
    /\ \A i \in Slots : Free(i)
\* ---------------------------------------------------------------- C17
\* request i leaves its route through the except clause
Raises(i) == req[i].pc # "except" /\ req'[i].pc = "except"

\* C17 as stated: whatever step of deactivate_user, change_password or
\* reset_password the storage fails at, neither the user mutation nor the
\* deletion of the sessions has taken effect.  change_password fails at its
\* create_session with both already committed.
C17_AsClaimed ==
    [][\A i \in Slots :
          (Raises(i) /\ req[i].kind \in CascadeKinds) =>
              /\ users' = users /\ sessions' = sessions
              /\ req[i].pc # "create_session"
      ]_vars

\* C17: a cascade is applied as a unit.  The step that takes a request out of
\* its cascade either raises and leaves users and sessions as they were, or
\* commits the UPDATE of the user together with the deletion of all of that
\* user's sessions; a failure of change_password after the commit (in
\* create_session) changes neither table any more.
C17_CascadeIsOneTransaction ==
    [][\A i \in Slots :
          /\ (AtCascade(req[i]) /\ req'[i] # req[i]) =>
                 \/ /\ Raises(i)
                    /\ users' = users /\ sessions' = sessions
                 \/ /\ ~Raises(i)
                    /\ users' = CascadeUpdate(req[i])
                    /\ sessions' = Drop(sessions, SessionsOf(CascadeUser(req[i])))
                    /\ SessionsOfNext(CascadeUser(req[i])) = {}
          /\ Moves(i, "create_session", "except") =>
                 users' = users /\ sessions' = sessions
      ]_vars

\* a deactivation failed on the storage: its request is in the except clause
\* and the user is still active with a session
C17_Witness ==
    \E i \in Slots :
        /\ req[i].pc = "except" /\ req[i].kind = "deactivate"
        /\ req[i].target \in DOMAIN users
        /\ users[req[i].target].is_active
        /\ SessionsOf(req[i].target) # {}

\* ---------------------------------------------------------------- C18
\* C18: delete_session never fails, whether its token has a row or not; it
\* removes the row of its token only, so that a second call with the token
\* finds nothing to remove, and on a token without a row it changes nothing.
\* cleanup_expired_sessions, called on any table the console reaches, leaves
\* a table on which a second call at the same time matches no row (returns
\* 0) and which it leaves as it is.
C18_DeleteAndSweepAreIdempotent ==
    /\ [](/\ \A i \in Slots :
              (req[i].pc = "delete_session" /\ req[i].kind = "logout") => ENABLED LogoutDelete(i)
          /\ Cardinality(ExpiredIn(Swept(sessions, now), now)) = 0
          /\ Swept(Swept(sessions, now), now) = Swept(sessions, now))
    /\ [][/\ \A i \in Slots : \A t \in Tokens :
              (Moves(i, "delete_session", "idle") /\ t = req[i].token) =>
                  /\ sessions' = Drop(sessions, {t})
                  /\ Drop(sessions', {t}) = sessions'
                  /\ t \notin DOMAIN sessions => sessions' = sessions
          /\ (req' = req /\ now' = now /\ sessions' = Swept(sessions, now)) =>
                  Swept(sessions', now') = sessions'
         ]_vars

\* a logout stands before its delete_session with a token whose row is
\* already gone, while a row of the table is expired
C18_Witness ==
    /\ ExpiredIn(sessions, now) # {}
    /\ \E i \in Slots :
          /\ req[i].pc = "delete_session"
          /\ req[i].token \notin DOMAIN sessions

\* ---------------------------------------------------------------- C19
\* the answer of require_auth to token t in the state a step leads to
RequireAuthNext(t) == Decorators(t, {})'

\* C19: the delete_session step of a logout (the route then answers 200)
\* leaves its token invalid, and the same request repeated with the same
\* token is let through by require_auth to the handler, which answers 200.
\* require_auth answers the repeated request 401: the token has no row.
C19_LogoutIsIdempotent ==
    [][\A i \in Slots : \A t \in Tokens :
          (req[i].kind = "logout" /\ Moves(i, "delete_session", "idle") /\ t = req[i].token) =>
              /\ ~VerifiesNext(t)
              /\ RequireAuthNext(t) = 0
      ]_vars

\* ---------------------------------------------------------------- C20
\* the routes of update_user, app.py 919-954
UpdateKinds == {"change_role", "activate", "deactivate", "reset_password"}

\* C20: an update_user request (change_role, activate, deactivate,
\* reset_password) whose user id has no row, and a change_password request
\* whose user has no row or whose old password does not match, is answered
\* with an error instead of going on to its success path, and leaves users
\* and sessions as they were.  update_user goes on to log_audit and answers
\* 200 for an id without a row.
C20_UnknownUserIsAnError ==
    [][\A i \in Slots :
          /\ ( /\ req[i].pc = "handler" /\ req[i].kind \in UpdateKinds
               /\ req[i].target \notin DOMAIN users
               /\ req'[i] # req[i] ) =>
                  /\ req'[i].pc \in {"idle", "except"}
                  /\ users' = users /\ sessions' = sessions
          /\ ( /\ req[i].pc = "handler" /\ req[i].kind = "change_password"
               /\ \/ req[i].uid \notin DOMAIN users
                  \/ ~verify_password(req[i].old, users[req[i].uid].password_hash)
               /\ req'[i] # req[i] ) =>
                  /\ req'[i].pc \in {"idle", "except"}
                  /\ users' = users /\ sessions' = sessions
      ]_vars

\* ---------------------------------------------------------------- C21
\* C21: usernames are pairwise distinct and every role is one of the three of
\* ROLES_HIERARCHY.  A create_user whose username has a row is refused and
\* leaves users as it was; a request that is answered without entering its
\* handler's auth.py call (a role outside the three among them) leaves users
\* as it was.
C21_UsernamesUniqueRolesValid ==
    /\ [](/\ \A a \in DOMAIN users : \A b \in DOMAIN users :
                users[a].username = users[b].username => a = b
          /\ \A a \in DOMAIN users : users[a].role \in {"admin", "operator", "viewer"})
    /\ [][/\ \A i \in Slots :
              ( /\ req[i].kind = "create_user" /\ req[i].pc = "handler"
                /\ UserByName(req[i].name) # {} /\ req'[i] # req[i] ) =>
                    /\ req'[i] = Idle
                    /\ users' = users /\ nextId' = nextId
          /\ req' = req => users' = users
          /\ \A i \in Slots :
                (req'[i].kind \in {"create_user", "change_role"} /\ req'[i].pc = "handler") =>
                    req'[i].arole \in {"admin", "operator", "viewer"}
         ]_vars

\* a create_user request for a username that has a row is in its handler
C21_Witness ==
    \E i \in Slots :
        /\ req[i].kind = "create_user" /\ req[i].pc = "handler"
        /\ UserByName(req[i].name) # {}

\* ---------------------------------------------------------------- C22
\* C22: the update_user_role step of a change_role request for a user with a
\* row leaves no session of that user, so that none of the tokens issued to
\* the user before validates afterwards.  update_user_role writes the users
\* table only.
C22_RoleChangeDropsSessions ==
    [][\A i \in Slots : \A t \in Tokens :
          ( /\ req[i].kind = "change_role" /\ Moves(i, "handler", "audit")
            /\ req[i].target \in DOMAIN users
            /\ t \in SessionsOf(req[i].target) ) =>
                /\ t \notin DOMAIN sessions'
                /\ ~VerifiesNext(t)
      ]_vars

\* ---------------------------------------------------------------- C23
\* C23: the user_id of every audit_log row is NULL (0 here) or the id of a
\* user that has a row.  delete_user leaves the rows of the deleted user in
\* audit_log with the id they were written with.
C23_AuditRowsReferToUsers ==
    \A k \in 1..Len(audit) : audit[k].user_id \in DOMAIN users \cup {0}

\* ---------------------------------------------------------------- C24
\* C24: a verify_session that rejects its token because the owner is inactive
\* leaves a sessions table without the row of that token.  verify_session
\* closes its connection and raises without a DELETE in that branch.
C24_InactiveOwnersRowIsDeleted ==
    \A t \in Tokens :
        verify_session(t).err = "Account is disabled" => t \notin DOMAIN SessionsAfterVerify(t)

\* ---------------------------------------------------------------- C25
\* the row of token t is past its expiry time
PastExpiry(t) == t \in DOMAIN sessions /\ now > sessions[t].expires_at

\* C25: a token without a row does not validate and a row past its expiry
\* time does not validate, sweep or no sweep; a validation attempt on a row
\* past its expiry time removes the row; the clock does not go back, a row
\* that is past its expiry time stays so as long as it is in the table, and
\* a token gets a row only from the create_session of a login, as a session
\* of its own that starts at that time.  A row whose owner has been deleted
\* (C28) is rejected by the JOIN before the expiry test and is not removed.
C25_ExpiredAndRevokedAreTerminal ==
    /\ [](\A t \in Tokens :
            /\ t \notin DOMAIN sessions => ~verify_session(t).ok
            /\ PastExpiry(t) => /\ ~verify_session(t).ok
                                /\ t \notin DOMAIN SessionsAfterVerify(t))
    /\ [][/\ now' >= now
          /\ \A t \in Tokens :
                /\ (PastExpiry(t) /\ t \in DOMAIN sessions') =>
                       /\ sessions'[t].expires_at = sessions[t].expires_at
                       /\ ~VerifiesNext(t)
                /\ (t \notin DOMAIN sessions /\ t \in DOMAIN sessions') =>
                       \E i \in Slots :
                           /\ req[i].kind = "login" /\ Moves(i, "create_session", "audit")
                           /\ req'[i].token = t
                           /\ sessions'[t].expires_at = now + SESSION_EXPIRY_HOURS
         ]_vars

\* ---------------------------------------------------------------- C26
\* C26: cleanup_expired_sessions deletes the rows with expires_at < now and no
\* other, its rowcount is their number, and every other row stays as it was;
\* the step of a sweep writes sessions only.  A sweep that fails in
\* before_request is never in the way of a request and leaves every table and
\* every request as if it had not been attempted.
C26_SweepRemovesExactlyExpired ==
    /\ [](/\ DOMAIN Swept(sessions, now)
                = {t \in DOMAIN sessions : ~(sessions[t].expires_at < now)}
          /\ \A t \in DOMAIN Swept(sessions, now) : Swept(sessions, now)[t] = sessions[t]
          /\ Cardinality(ExpiredIn(sessions, now))
                = Cardinality(DOMAIN sessions) - Cardinality(DOMAIN Swept(sessions, now))
          /\ ENABLED SweepFails)
    /\ [][/\ (req' = req /\ now' = now) =>
                  /\ users' = users /\ nextId' = nextId /\ audit' = audit
                  /\ sessions' # sessions =>
                        /\ DOMAIN sessions' = {t \in DOMAIN sessions : ~(sessions[t].expires_at < now)}
                        /\ \A t \in DOMAIN sessions' : sessions'[t] = sessions[t]
          /\ SweepFails => UNCHANGED vars
         ]_vars

\* of two sessions one has been swept; the one that is left expires at this
\* very time
C26_Witness ==
    /\ Len(audit) = 2 /\ \A i \in Slots : Free(i)
    /\ Cardinality(DOMAIN sessions) = 1
    /\ \E t \in DOMAIN sessions : sessions[t].expires_at = now

\* ---------------------------------------------------------------- C27
\* the decorators and verify_session in the state a step leads to
DecoratorsNext(t, A) == Decorators(t, A)'
RoleNext(t)          == verify_session(t)'.role

\* C27: a token that validates is given the role its owner has in users at
\* that time.  After the update_user_role step that gives user U the role r,
\* every token of U that validates carries r and passes a gate iff r is in
\* the declared set; every request that the decorators let through carries
\* the role its user has in users at that time, and that role is in the set
\* the route declares.
C27_RoleIsReadAtValidation ==
    /\ [](\A t \in Tokens :
            verify_session(t).ok => verify_session(t).role = users[sessions[t].user_id].role)
    /\ [][/\ \A i \in Slots : \A t \in Tokens : \A A \in RoleSets :
              ( /\ req[i].kind = "change_role" /\ Moves(i, "handler", "audit")
                /\ t \in SessionsOf(req[i].target)
                /\ VerifiesNext(t) ) =>
                    /\ RoleNext(t) = req[i].arole
                    /\ (DecoratorsNext(t, A) = 0) <=> (req[i].arole \in A)
                    /\ (DecoratorsNext(t, A) = 403) <=> (req[i].arole \notin A)
          /\ \A i \in Slots :
              (Free(i) /\ req'[i].pc = "handler") =>
                    /\ req'[i].uid \in DOMAIN users
                    /\ req'[i].role = users[req'[i].uid].role
                    /\ req'[i].allowed # {} => req'[i].role \in req'[i].allowed
         ]_vars

\* bob logged in as operator and was then made a viewer: the token of that
\* login validates and is refused on a route that declares operator
C27_Witness ==
    /\ 2 \in DOMAIN users /\ users[2].role = ROLE_VIEWER
    /\ \E j \in 1..Len(audit), k \in 1..Len(audit) :
          /\ j < k
          /\ audit[j] = [user_id |-> 2, action |-> "login"]
          /\ audit[k].action = "update_user_role"
    /\ \E t \in SessionsOf(2) :
          /\ verify_session(t).ok
          /\ Decorators(t, {ROLE_OPERATOR}) = 403

\* ---------------------------------------------------------------- C28
\* C28: the user_id of every session row is the id of a user that has a row.
\* A login that has passed authenticate inserts its session after the
\* delete_user of its user has committed; no foreign key is enforced on the
\* connection.
C28_SessionsReferToUsers ==
    \A t \in DOMAIN sessions : sessions[t].user_id \in DOMAIN users

\* ---------------------------------------------------------------- C29
\* C29: some user is active and has the role admin.  update_user lets an
\* admin deactivate or demote any id, the caller's own included.
C29_SomeActiveAdmin ==
    \E id \in DOMAIN users : users[id].role = ROLE_ADMIN /\ users[id].is_active

\* ---------------------------------------------------------------- C30
\* C30: the UPDATE of a ban is made only on a device that is in the table,
\* not deleted and not banned at that time, the UPDATE of an unban only on
\* one that is banned, and it clears the three ban columns; a request that
\* is answered 404 or 409 leaves the table as it was.  So of two ban
\* requests for one device at most one goes on to its 200 answer.  Both do:
\* each has read is_banned = 0 before the other's UPDATE.
C30_BanAndUnbanAlternate ==
    [][\A i \in Slots :
          /\ (req[i].kind = "ban_device" /\ Moves(i, "update", "audit")) =>
                 /\ DeviceFound(i)
                 /\ ~peer[req[i].device].is_banned
                 /\ peer'[req[i].device].is_banned
          /\ (req[i].kind = "unban_device" /\ Moves(i, "update", "audit")) =>
                 /\ DeviceFound(i)
                 /\ peer[req[i].device].is_banned
                 /\ peer'[req[i].device] = Unbanned(FALSE)
          /\ (req[i].kind \in DeviceKinds /\ Moves(i, "handler", "idle")) =>
                 peer' = peer
      ]_vars

====
